---- MODULE Spec2Model ----
(***************************************************************************)
(* Model of the Aizasy streaming gateway (src/src/main.rs): the relay      *)
(* handler proxy_handler, the shared AppState built by main, and the       *)
(* environment it talks to (inbound caller, upstream origin).              *)
(*                                                                         *)
(* Strings that the code takes apart (target URL, path-and-query) are      *)
(* sequences of one-character strings.  A HeaderMap is a function from     *)
(* canonical (lower-case) header names to the sequence of values stored    *)
(* under that name; the empty sequence means the name is absent.           *)
(***************************************************************************)
EXTENDS Integers, Sequences, FiniteSets, TLC

(***************************************************************************)
(* Bounds of the model                                                     *)
(***************************************************************************)
MaxHeaders == 2      \* inbound header lines enumerated by the sanitizer spec
MaxPathLen == 3      \* characters of path-and-query enumerated by the URL spec
MaxBytes == 2        \* bytes of an inbound request body
MaxRespChunks == 2   \* chunks of an upstream response body

MaxHops == 1         \* redirects the upstream answers one relay with

\* the relay slots; the specifications below run one relay, the other slot stays idle
Relays == {1, 2}

None == "none"

(***************************************************************************)
(* Sequence helpers                                                        *)
(***************************************************************************)
SeqsUpTo(S, n) == UNION {[1..k -> S] : k \in 0..n}

RECURSIVE Concat(_)
Concat(ss) == IF ss = <<>> THEN <<>> ELSE Head(ss) \o Concat(Tail(ss))

IsPrefix(s, t) == Len(s) <= Len(t) /\ SubSeq(t, 1, Len(s)) = s

(***************************************************************************)
(* Header names.  On the wire names come in any letter case; http's        *)
(* HeaderName stores them lower-cased, which is what HeaderMap::remove     *)
(* and HeaderMap::insert compare.                                          *)
(***************************************************************************)
WireNames == {"Host", "host", "cf-connecting-ip", "CF-IPCountry",
              "X-Forwarded-For", "x-real-ip", "Authorization",
              "Content-Length", "accept"}

Lower(n) ==
    CASE n = "Host" -> "host"
      [] n = "CF-IPCountry" -> "cf-ipcountry"
      [] n = "X-Forwarded-For" -> "x-forwarded-for"
      [] n = "Authorization" -> "authorization"
      [] n = "Content-Length" -> "content-length"
      [] n = "Set-Cookie" -> "set-cookie"
      [] OTHER -> n

RespWireNames == {"content-type", "Set-Cookie", "set-cookie", "location"}

HeaderNames == {Lower(n) : n \in WireNames \cup RespWireNames}

HeaderValues == {"v1", "v2"}

EmptyHeaderMap == [n \in HeaderNames |-> <<>>]

\* HeaderMap::append: one more value under the name
HeaderAppend(m, k, v) == [m EXCEPT ![Lower(k)] = Append(@, v)]

\* HeaderMap::insert: the value replaces every value stored under the name
HeaderInsert(m, k, v) == [m EXCEPT ![Lower(k)] = <<v>>]

\* a remove that takes one value only from under the name
HeaderRemoveFirst(m, k) == [m EXCEPT ![Lower(k)] = IF @ = <<>> THEN @ ELSE Tail(@)]

\* HeaderMap::remove: every value stored under the name goes
HeaderRemove(m, k) == [m EXCEPT ![Lower(k)] = <<>>]

\* the HeaderMap hyper builds from the header lines of a message
RECURSIVE ParseHeaders(_)
ParseHeaders(lines) ==
    IF lines = <<>> THEN EmptyHeaderMap
    ELSE LET l == lines[Len(lines)]
         IN  HeaderAppend(ParseHeaders(SubSeq(lines, 1, Len(lines) - 1)), l[1], l[2])

(***************************************************************************)
(* main: target_url = args.target.trim_end_matches('/')                    *)
(***************************************************************************)
\* a trim that strips one trailing slash only
TrimOneSlash(s) ==
    IF s # <<>> /\ s[Len(s)] = "/" THEN SubSeq(s, 1, Len(s) - 1) ELSE s

RECURSIVE TrimEndMatches(_)
TrimEndMatches(s) ==
    IF s # <<>> /\ s[Len(s)] = "/" THEN TrimEndMatches(SubSeq(s, 1, Len(s) - 1))
    ELSE s

\* proxy_handler: format!("{}{}", state.target_url, path)
TargetUri(target, pathq) == target \o pathq

\* a sanitizer that strips the credentials as well
SanitizeHeadersAndAuth(h) ==
    HeaderRemove(
      HeaderRemove(
        HeaderRemove(
          HeaderRemove(
            HeaderRemove(
              HeaderRemove(h, "host"),
              "cf-connecting-ip"),
            "cf-ipcountry"),
          "x-forwarded-for"),
        "content-length"),
      "authorization")

\* proxy_handler, step 1: the clone of the inbound headers with five names removed
SanitizeHeaders(h) ==
    HeaderRemove(
      HeaderRemove(
        HeaderRemove(
          HeaderRemove(
            HeaderRemove(h, "host"),
            "cf-connecting-ip"),
          "cf-ipcountry"),
        "x-forwarded-for"),
      "content-length")

\* proxy_handler, Ok arm: for (k, v) in response.headers() { resp_headers.insert(k, v.clone()) }
RECURSIVE CopyRespHeaders(_)
CopyRespHeaders(lines) ==
    IF lines = <<>> THEN EmptyHeaderMap
    ELSE LET l == lines[Len(lines)]
         IN  HeaderInsert(CopyRespHeaders(SubSeq(lines, 1, Len(lines) - 1)), l[1], l[2])

(***************************************************************************)
(* Input domains                                                           *)
(***************************************************************************)
Methods == {"GET", "POST"}

PathChars == {"/", "a", "?"}

\* every path-and-query hyper hands to the router: it starts with a slash
AllPaths == {p \in SeqsUpTo(PathChars, MaxPathLen) : p # <<>> /\ p[1] = "/"}

Targets == {<<"u">>, <<"u", "/">>, <<"u", "/", "/">>, <<"s", "/", "/", "u">>,
            <<"s", "/", "/", "u", "/">>}

HeaderLines(names) == names \X HeaderValues

AllHeaderLists == SeqsUpTo(HeaderLines(WireNames), MaxHeaders)

\* a body of n bytes 1..n, in every way of cutting it into non-empty chunks
Bytes(n) == [i \in 1..n |-> i]

Chunks == SeqsUpTo(1..MaxBytes, MaxBytes) \ {<<>>}

AllBodies == {b \in SeqsUpTo(Chunks, MaxBytes) : Concat(b) = Bytes(Len(Concat(b)))}

\* upstream response bodies: chunk i carries the byte i
RespBodies == {[i \in 1..k |-> <<i>>] : k \in 0..MaxRespChunks}

Statuses == {200, 302, 404, 502}

RespHeaderLists == {<<>>,
                    <<<<"content-type", "v1">>>>,
                    <<<<"Set-Cookie", "v1">>, <<"set-cookie", "v2">>>>,
                    <<<<"location", "v1">>>>}

\* reasons request_builder.send() fails with
SendErrors == {"connect", "tls"}

(***************************************************************************)
(* State                                                                   *)
(***************************************************************************)
VARIABLES
    args_target,   \* Args.target as given on the command line
    target_url,    \* AppState.target_url
    relay,         \* one record per inbound request handled by proxy_handler
    proc,          \* where main is: "start" .. "serving", "draining", "exited", "panicked"
    args,          \* Args.proxy, Args.insecure, Args.listen, Args.log_level
    client,        \* the client builder, then AppState.client
    log            \* the records the tracing subscriber has written

vars == <<args_target, target_url, relay, proc, args, client, log>>

(***************************************************************************)
(* tracing: a record is written when the filter built from Args.log_level  *)
(* enables its level                                                       *)
(***************************************************************************)
LogLevels == {"off", "error", "warn", "info", "debug"}

Rank(level) ==
    CASE level = "off" -> 0
      [] level = "error" -> 1
      [] level = "warn" -> 2
      [] level = "info" -> 3
      [] level = "debug" -> 4

\* info!, warn!, error! under EnvFilter::new(args.log_level)
Emit(lg, level, msg, filter) ==
    IF Rank(level) <= Rank(filter) THEN Append(lg, <<level, msg>>) ELSE lg

DefaultArgs == [proxy |-> None, insecure |-> FALSE, listen |-> "ok", log_level |-> "info"]

NoClient == [built |-> FALSE, proxy |-> None, insecure |-> FALSE]

NoReply == [status |-> 0, lines |-> <<>>, body |-> <<>>]

IdleRelay ==
    [pc          |-> "Idle",
     connected   |-> TRUE,          \* the inbound caller is still there
     method      |-> None,
     path        |-> <<>>,
     inLines     |-> <<>>,          \* the inbound header lines, as the caller sends them
     headers     |-> EmptyHeaderMap,
     inOrig      |-> <<>>,          \* the inbound body, as the caller sends it
     inBody      |-> <<>>,          \* inbound chunks not yet read
     target_uri  |-> <<>>,
     new_headers |-> EmptyHeaderMap,
     bodyLive    |-> FALSE,         \* reqwest_body is attached to a request in flight
     outReqs     |-> <<>>,          \* requests issued to the upstream, in order
     upRecv      |-> <<>>,          \* request-body chunks handed to the upstream
     reqEnd      |-> FALSE,         \* the upstream was given the end of the request body
     inErr       |-> FALSE,         \* the inbound stream yielded a read error
     heads       |-> 0,             \* response heads the upstream has sent
     upResp      |-> NoReply,       \* the reply the upstream last sent
     upLeft      |-> <<>>,          \* response chunks the upstream has yet to send
     upWire      |-> <<>>,          \* response chunks sent, not yet read by the gateway
     upDone      |-> FALSE,         \* the upstream has ended its body
     respLive    |-> FALSE,         \* resp_stream is held by the response body
     clStatus    |-> 0,             \* status the caller was given (0: none yet)
     clHeaders   |-> EmptyHeaderMap,
     clBody      |-> <<>>,          \* body chunks delivered to the caller
     clEnd       |-> "open",        \* "open", "complete" or "aborted"
     origin      |-> None,          \* who produced the response: "upstream" or "gateway"
     err         |-> None]          \* the error send() returned

\* the process serving, started with the default arguments and some target
Init ==
    /\ args_target \in Targets
    /\ target_url = TrimEndMatches(args_target)
    /\ relay = [r \in Relays |-> IdleRelay]
    /\ proc = "serving"
    /\ args = DefaultArgs
    /\ client = [NoClient EXCEPT !.built = TRUE]
    /\ log = <<<<"info", "starting">>, <<"info", "listening">>>>

\* a handler that keeps its outbound headers in a buffer every relay writes to
SetShared(r, rec) ==
    relay' = [q \in Relays |->
                IF q = r THEN rec
                ELSE [relay[q] EXCEPT !.new_headers = rec.new_headers]]

Set(r, rec) == relay' = [relay EXCEPT ![r] = rec]

\* everything main owns: the arguments, AppState, the server and the log
Config == <<args_target, target_url, proc, args, client, log>>

(***************************************************************************)
(* proxy_handler up to send()                                              *)
(***************************************************************************)
\* the extractors hand over method, headers, uri and body; target_uri is formatted
Receive(r, M, P, H, B) ==
    /\ proc = "serving"
    /\ relay[r].pc = "Idle"
    /\ \E m \in M, p \in P, h \in H, b \in B :
         Set(r, [relay[r] EXCEPT
                   !.pc = "Received",
                   !.method = m,
                   !.path = p,
                   !.inLines = h,
                   !.headers = ParseHeaders(h),
                   !.inOrig = b,
                   !.inBody = b,
                   !.target_uri = TargetUri(target_url, p)])
    /\ UNCHANGED Config

Sanitize(r) ==
    /\ relay[r].pc = "Received"
    /\ Set(r, [relay[r] EXCEPT
                 !.pc = "HeadersSanitized",
                 !.new_headers = SanitizeHeaders(relay[r].headers)])
    /\ UNCHANGED Config

\* a body read to its end into memory before the request is built
PreparedBuffered(rec) ==
    [rec EXCEPT !.pc = "BodyPrepared", !.bodyLive = TRUE, !.inBody = <<>>]

\* req.into_body().into_data_stream().map_err(..), wrapped by Body::wrap_stream:
\* the stream is wrapped, nothing is read from it
Prepared(rec) ==
    [rec EXCEPT !.pc = "BodyPrepared", !.bodyLive = TRUE]

PrepareBody(r) ==
    /\ relay[r].pc = "HeadersSanitized"
    /\ Set(r, Prepared(relay[r]))
    /\ UNCHANGED Config

\* the request client.request(method, target_uri).headers(new_headers).body(reqwest_body)
BuildRequest(rec) ==
    [method |-> rec.method, url |-> rec.target_uri, headers |-> rec.new_headers,
     body |-> TRUE]

Dispatch(r) ==
    /\ relay[r].pc = "BodyPrepared"
    /\ Set(r, [relay[r] EXCEPT
                 !.pc = "UpstreamDispatched",
                 !.outReqs = <<BuildRequest(relay[r])>>])
    /\ UNCHANGED Config

(***************************************************************************)
(* send().await: the request body is pulled from the inbound stream while  *)
(* the request is in flight                                                *)
(***************************************************************************)
\* a poll that reads a chunk from the caller and loses it
ForwardChunkLost(rec) ==
    [rec EXCEPT !.inBody = Tail(@)]

\* one poll of the wrapped stream: the chunk read from the caller goes to the upstream
ForwardChunk(rec) ==
    [rec EXCEPT !.upRecv = Append(@, Head(rec.inBody)), !.inBody = Tail(@)]

ForwardBodyChunk(r) ==
    /\ relay[r].pc \in {"UpstreamDispatched", "ResponseStreaming"}
    /\ relay[r].bodyLive
    /\ relay[r].inBody # <<>>
    /\ Set(r, ForwardChunk(relay[r]))
    /\ UNCHANGED Config

\* Err arm: (StatusCode::BAD_GATEWAY, format!("Proxy Error: {}", e))
\* an error answered and closed in one step, the Failed state skipped
GatewayErrorAtOnce(rec, e) ==
    [rec EXCEPT
       !.pc = "Closed",
       !.bodyLive = FALSE,
       !.clStatus = 502,
       !.clBody = << <<"Proxy Error: ", e>> >>,
       !.clEnd = "complete",
       !.origin = "gateway",
       !.err = e]

GatewayError(rec, e) ==
    [rec EXCEPT
       !.pc = "Failed",
       !.bodyLive = FALSE,
       !.clStatus = 502,
       !.clHeaders = HeaderInsert(EmptyHeaderMap, "content-type", "text/plain"),
       !.clBody = << <<"Proxy Error: ", e>> >>,
       !.origin = "gateway",
       !.err = e]

\* connection refused, connect timeout, TLS or protocol error before a response head
SendFail(r) ==
    /\ relay[r].pc = "UpstreamDispatched"
    /\ \E e \in SendErrors : Set(r, GatewayError(relay[r], e))
    /\ UNCHANGED Config

\* the wrapped stream yields None: the request body ends
ForwardBodyEnd(r) ==
    /\ relay[r].pc \in {"UpstreamDispatched", "ResponseStreaming"}
    /\ relay[r].bodyLive
    /\ relay[r].inBody = <<>>
    /\ ~relay[r].reqEnd
    /\ Set(r, [relay[r] EXCEPT !.reqEnd = TRUE])
    /\ UNCHANGED Config

\* a read error taken for the end of the stream
ReadFailedAsEnd(rec) ==
    [rec EXCEPT !.inErr = TRUE, !.reqEnd = TRUE]

\* the inbound stream yields an error: map_err makes it an io::Error, the request
\* body is aborted; while send() is pending it returns Err
ReadFailed(rec) ==
    IF rec.pc = "UpstreamDispatched"
    THEN [GatewayError(rec, "body") EXCEPT !.inErr = TRUE]
    ELSE [rec EXCEPT !.inErr = TRUE, !.bodyLive = FALSE]

InboundReadError(r) ==
    /\ relay[r].pc \in {"UpstreamDispatched", "ResponseStreaming"}
    /\ relay[r].bodyLive
    /\ ~relay[r].reqEnd
    /\ Set(r, ReadFailed(relay[r]))
    /\ UNCHANGED Config

HasLocation(lines) == \E i \in 1..Len(lines) : Lower(lines[i][1]) = "location"

Location(lines) ==
    lines[CHOOSE i \in 1..Len(lines) :
            /\ Lower(lines[i][1]) = "location"
            /\ \A j \in 1..(i - 1) : Lower(lines[j][1]) # "location"][2]

\* main builds the client with Client::builder() and never calls .redirect(..), so
\* the default policy applies: send() follows a 301/302/303 reply that has a Location
\* itself and returns the reply to the request it issued last.  302 stands for the
\* three statuses; the upstream answers at most MaxHops redirects per relay, which
\* stays below the policy's own limit of 10 hops.
IsRedirect(status, lines) == status = 302 /\ HasLocation(lines)

\* the request reqwest issues next: GET unless GET or HEAD, no body, content headers removed
Redirected(req, loc) ==
    [method |-> IF req.method \in {"GET", "HEAD"} THEN req.method ELSE "GET",
     url |-> <<loc>>,
     headers |-> HeaderRemove(HeaderRemove(req.headers, "content-type"), "content-length"),
     body |-> FALSE]

\* what send() does with a redirect reply: the reply is consumed, another request goes out
FollowRedirectStep(rec, lines) ==
    [rec EXCEPT
       !.heads = @ + 1,
       !.upResp = [status |-> 302, lines |-> lines, body |-> <<>>],
       !.bodyLive = FALSE,
       !.outReqs = Append(@, Redirected(rec.outReqs[Len(rec.outReqs)], Location(lines)))]

FollowRedirect(r) ==
    /\ relay[r].pc = "UpstreamDispatched"
    /\ Len(relay[r].outReqs) <= MaxHops
    /\ \E lines \in RespHeaderLists :
         /\ IsRedirect(302, lines)
         /\ Set(r, FollowRedirectStep(relay[r], lines))
    /\ UNCHANGED Config

\* Ok arm: status, resp_headers and Body::from_stream(response.bytes_stream())
RelayHead(rec, s, lines, body) ==
    [rec EXCEPT
       !.pc = "ResponseStreaming",
       !.heads = @ + 1,
       !.upResp = [status |-> s, lines |-> lines, body |-> body],
       !.upLeft = body,
       !.respLive = TRUE,
       !.clStatus = s,
       !.clHeaders = CopyRespHeaders(lines),
       !.origin = "upstream"]

UpstreamReply(r, S, L, B) ==
    /\ relay[r].pc = "UpstreamDispatched"
    /\ \E s \in S, lines \in L, body \in B :
         /\ ~IsRedirect(s, lines)
         /\ Set(r, RelayHead(relay[r], s, lines, body))
    /\ UNCHANGED Config

(***************************************************************************)
(* The response body: Body::from_stream(resp_stream), polled by hyper      *)
(***************************************************************************)
UpstreamSendChunk(r) ==
    /\ relay[r].pc = "ResponseStreaming"
    /\ relay[r].upLeft # <<>>
    /\ Set(r, [relay[r] EXCEPT !.upWire = Append(@, Head(relay[r].upLeft)),
                               !.upLeft = Tail(@)])
    /\ UNCHANGED Config

UpstreamEnd(r) ==
    /\ relay[r].pc = "ResponseStreaming"
    /\ relay[r].upLeft = <<>>
    /\ ~relay[r].upDone
    /\ Set(r, [relay[r] EXCEPT !.upDone = TRUE])
    /\ UNCHANGED Config

\* a response read to its end first (response.bytes().await)
CanRelayBuffered(rec) == rec.upWire # <<>> /\ rec.upDone

\* a chunk can be taken from the stream as soon as the upstream has sent it
CanRelay(rec) == rec.upWire # <<>>

\* one poll of resp_stream: the chunk read from the upstream is written to the caller
RelayChunkStep(rec) ==
    [rec EXCEPT !.clBody = Append(@, Head(rec.upWire)), !.upWire = Tail(@)]

RelayChunk(r) ==
    /\ relay[r].pc = "ResponseStreaming"
    /\ relay[r].respLive
    /\ CanRelay(relay[r])
    /\ Set(r, RelayChunkStep(relay[r]))
    /\ UNCHANGED Config

\* a relay that also waits for the inbound body before it ends the response
CanFinishAfterRequest(rec) == rec.upDone /\ rec.upWire = <<>> /\ rec.reqEnd

\* resp_stream yields None once the upstream has ended and every chunk is read
CanFinish(rec) == rec.upDone /\ rec.upWire = <<>>

\* the stream ends: the caller's body is complete
FinishStream(r) ==
    /\ relay[r].pc = "ResponseStreaming"
    /\ CanFinish(relay[r])
    /\ Set(r, [relay[r] EXCEPT !.pc = "Closed", !.clEnd = "complete",
                               !.bodyLive = FALSE, !.respLive = FALSE])
    /\ UNCHANGED Config

\* a stream error answered like a send error
StreamFailedAs502(rec) ==
    [rec EXCEPT !.pc = "Closed", !.clEnd = "complete",
                !.bodyLive = FALSE, !.respLive = FALSE,
                !.clStatus = 502, !.origin = "gateway",
                !.clBody = << <<"Proxy Error: ", "stream">> >>]

\* resp_stream yields an error: the head is out already, the body just stops
StreamFailed(rec) ==
    [rec EXCEPT !.pc = "Closed", !.clEnd = "aborted",
                !.bodyLive = FALSE, !.respLive = FALSE]

UpstreamStreamError(r) ==
    /\ relay[r].pc = "ResponseStreaming"
    /\ ~relay[r].upDone
    /\ Set(r, StreamFailed(relay[r]))
    /\ UNCHANGED Config

\* the 502 response is written out
DeliverError(r) ==
    /\ relay[r].pc = "Failed"
    /\ Set(r, [relay[r] EXCEPT !.pc = "Closed", !.clEnd = "complete"])
    /\ UNCHANGED Config

\* a relay whose upstream side runs in a task of its own outlives the caller
DroppedDetached(rec) ==
    [rec EXCEPT !.connected = FALSE]

\* hyper sees the caller gone and drops the handler future or the response body,
\* and with them everything they own: reqwest_body, the pending send, resp_stream
Dropped(rec) ==
    [rec EXCEPT !.pc = "Closed", !.connected = FALSE,
                !.bodyLive = FALSE, !.respLive = FALSE,
                !.clEnd = IF @ = "open" THEN "aborted" ELSE @]

ClientDisconnect(r) ==
    /\ relay[r].pc \in {"UpstreamDispatched", "ResponseStreaming", "Failed"}
    /\ Set(r, Dropped(relay[r]))
    /\ UNCHANGED Config

(***************************************************************************)
(* main: startup, serving, shutdown                                        *)
(***************************************************************************)
\* the target is never parsed at startup; reqwest parses target_uri for every request
IsUrl(u) == u # <<>> /\ u[1] \in {"u", "s"}

StartTargets == {<<"u", "/">>, <<"%">>}

AllArgs == [proxy : {None, "ok", "bad"}, insecure : BOOLEAN,
            listen : {"ok", "bad"}, log_level : LogLevels]

\* the process as main is entered
InitStart ==
    /\ args_target \in StartTargets
    /\ target_url = <<>>
    /\ relay = [r \in Relays |-> IdleRelay]
    /\ proc = "start"
    /\ args \in AllArgs
    /\ client = NoClient
    /\ log = <<>>

\* tracing_subscriber ... .init(); info!("...")
InitLogging ==
    /\ proc = "start"
    /\ proc' = "proxy"
    /\ log' = Emit(log, "info", "starting", args.log_level)
    /\ UNCHANGED <<args_target, target_url, relay, args, client>>

\* if let Some(proxy_url) = &args.proxy { info!; Proxy::all(proxy_url).expect(..) }
ConfigureProxy ==
    /\ proc = "proxy"
    /\ IF args.proxy = None
       THEN proc' = "tls" /\ UNCHANGED <<log, client>>
       ELSE /\ log' = Emit(log, "info", "proxy", args.log_level)
            /\ IF args.proxy = "bad"
               THEN proc' = "panicked" /\ UNCHANGED client
               ELSE proc' = "tls" /\ client' = [client EXCEPT !.proxy = args.proxy]
    /\ UNCHANGED <<args_target, target_url, relay, args>>

\* if args.insecure { warn!; danger_accept_invalid_certs(true) }
ConfigureTls ==
    /\ proc = "tls"
    /\ proc' = "build"
    /\ IF args.insecure
       THEN /\ log' = Emit(log, "warn", "insecure", args.log_level)
            /\ client' = [client EXCEPT !.insecure = TRUE]
       ELSE UNCHANGED <<log, client>>
    /\ UNCHANGED <<args_target, target_url, relay, args>>

\* client_builder.build().expect(..); AppState { client, target_url }; Router
BuildClient ==
    /\ proc = "build"
    /\ \/ /\ proc' = "listen"
          /\ client' = [client EXCEPT !.built = TRUE]
          /\ target_url' = TrimEndMatches(args_target)
       \/ /\ proc' = "panicked"
          /\ UNCHANGED <<client, target_url>>
    /\ UNCHANGED <<args_target, relay, args, log>>

\* args.listen.parse().expect(..); info!
ParseListen ==
    /\ proc = "listen"
    /\ IF args.listen = "bad"
       THEN proc' = "panicked" /\ UNCHANGED log
       ELSE proc' = "bind" /\ log' = Emit(log, "info", "listening", args.log_level)
    /\ UNCHANGED <<args_target, target_url, relay, args, client>>

\* TcpListener::bind(addr).await.unwrap(); axum::serve(listener, app)
Bind ==
    /\ proc = "bind"
    /\ proc' \in {"serving", "panicked"}
    /\ UNCHANGED <<args_target, target_url, relay, args, client, log>>

\* shutdown_signal() resolves on Ctrl+C or SIGTERM: the server stops accepting
ShutdownSignal ==
    /\ proc = "serving"
    /\ proc' = "draining"
    /\ log' = Emit(log, "info", "shutdown", args.log_level)
    /\ UNCHANGED <<args_target, target_url, relay, args, client>>

\* a server that returns as soon as the signal is in
CanExitAtOnce == TRUE

\* with_graceful_shutdown: serve returns when every connection has finished
CanExit == \A r \in Relays : relay[r].pc \in {"Idle", "Closed"}

\* serve(..).await returns, main ends and drops AppState with its pool
Exit ==
    /\ proc = "draining"
    /\ CanExit
    /\ proc' = "exited"
    /\ UNCHANGED <<args_target, target_url, relay, args, client, log>>

\* client.request(method, target_uri) keeps the parse error, send() returns it at once
BuilderError(r) ==
    /\ relay[r].pc = "UpstreamDispatched"
    /\ ~IsUrl(relay[r].target_uri)
    /\ Set(r, GatewayError(relay[r], "builder"))
    /\ UNCHANGED Config

(***************************************************************************)
(* main: the router                                                        *)
(*   .route("/health", get(health_check))                                  *)
(*   .route("/{*path}", any(proxy_handler))                                *)
(*   .route("/", any(proxy_handler))                                       *)
(***************************************************************************)
\* "h" stands for the path segment health
HealthPath == <<"/", "h">>

RouterMethods == {"GET", "HEAD", "POST"}

RouterPaths == {<<"/">>, <<"/", "h">>, <<"/", "h", "?">>, <<"/", "h", "/">>, <<"/", "a">>}

\* the path of a path-and-query: what comes before the first "?"
RECURSIVE PathOf(_)
PathOf(pq) ==
    IF pq = <<>> \/ Head(pq) = "?" THEN <<>> ELSE <<Head(pq)>> \o PathOf(Tail(pq))

\* the static route wins over the wildcard; its method router serves GET and (as
\* every get() route of axum does) HEAD, and answers any other method itself
Route(m, pq) ==
    IF PathOf(pq) = HealthPath
    THEN IF m \in {"GET", "HEAD"} THEN "health_check" ELSE "method_not_allowed"
    ELSE "proxy_handler"

HealthBody == << <<"Aizasy Gateway is running (Stream Mode)">> >>

\* health_check: (StatusCode::OK, "Aizasy Gateway is running (Stream Mode)")
HealthReply(rec, m, pq) ==
    [rec EXCEPT
       !.pc = "Closed",
       !.method = m,
       !.path = pq,
       !.clStatus = 200,
       !.clBody = IF m = "HEAD" THEN <<>> ELSE HealthBody,
       !.clEnd = "complete",
       !.origin = "health"]

\* the method router of /health: 405 Method Not Allowed, no handler runs
RouterReply(rec, m, pq) ==
    [rec EXCEPT
       !.pc = "Closed",
       !.method = m,
       !.path = pq,
       !.clStatus = 405,
       !.clEnd = "complete",
       !.origin = "router"]

HealthCheck(r, M, P) ==
    /\ proc = "serving"
    /\ relay[r].pc = "Idle"
    /\ \E m \in M, p \in P :
         /\ Route(m, p) = "health_check"
         /\ Set(r, HealthReply(relay[r], m, p))
    /\ UNCHANGED Config

MethodNotAllowed(r, M, P) ==
    /\ proc = "serving"
    /\ relay[r].pc = "Idle"
    /\ \E m \in M, p \in P :
         /\ Route(m, p) = "method_not_allowed"
         /\ Set(r, RouterReply(relay[r], m, p))
    /\ UNCHANGED Config

RouteToRelay(r, M, P, H, B) ==
    \E m \in M, p \in P :
        /\ Route(m, p) = "proxy_handler"
        /\ Receive(r, {m}, {p}, H, B)

(***************************************************************************)
(* Specifications                                                          *)
(***************************************************************************)
\* the steps of proxy_handler up to send(), for inputs drawn from the given sets
BuildSteps(r, M, P, H, B) ==
    \/ Receive(r, M, P, H, B)
    \/ Sanitize(r)
    \/ PrepareBody(r)
    \/ Dispatch(r)

\* inputs of the relay specification
SomePaths == {<<"/", "a", "?">>}

SomeHeaderLists == {<<>>, <<<<"x-real-ip", "v1">>, <<"Authorization", "v2">>>>}

\* one relay from the request to Closed, with its caller and its upstream
Next ==
    \E r \in {1} :
      \/ BuildSteps(r, Methods, SomePaths, SomeHeaderLists, AllBodies)
      \/ ForwardBodyChunk(r)
      \/ ForwardBodyEnd(r)
      \/ SendFail(r)
      \/ InboundReadError(r)
      \/ FollowRedirect(r)
      \/ UpstreamReply(r, Statuses, RespHeaderLists, RespBodies)
      \/ UpstreamSendChunk(r)
      \/ UpstreamEnd(r)
      \/ RelayChunk(r)
      \/ FinishStream(r)
      \/ UpstreamStreamError(r)
      \/ DeliverError(r)
      \/ ClientDisconnect(r)

Spec == Init /\ [][Next]_vars

\* the request built for every inbound header list of at most MaxHeaders lines
NextHeaders == \E r \in {1} : BuildSteps(r, Methods, {<<"/">>}, AllHeaderLists, {<<>>})

SpecHeaders == Init /\ [][NextHeaders]_vars

\* the request built for every target and every path-and-query of at most MaxPathLen characters
NextUrl == \E r \in {1} : BuildSteps(r, Methods, AllPaths, {<<>>}, {<<>>})

SpecUrl == Init /\ [][NextUrl]_vars

\* the process from the entry of main to its exit, serving one relay
NextProcess ==
    \/ InitLogging
    \/ ConfigureProxy
    \/ ConfigureTls
    \/ BuildClient
    \/ ParseListen
    \/ Bind
    \/ ShutdownSignal
    \/ Exit
    \/ \E r \in {1} :
         \/ BuildSteps(r, {"GET"}, {<<"/">>}, {<<>>}, {<<>>})
         \/ BuilderError(r)
         \/ /\ IsUrl(relay[r].target_uri)
            /\ \/ SendFail(r)
               \/ UpstreamReply(r, {200}, {<<>>}, {<< <<1>> >>})
         \/ UpstreamSendChunk(r)
         \/ UpstreamEnd(r)
         \/ RelayChunk(r)
         \/ FinishStream(r)
         \/ DeliverError(r)

SpecProcess == InitStart /\ [][NextProcess]_vars

\* inputs of the two-relay specification
PairBodies == {<<>>, << <<1>> >>}

InitPair == Init /\ args_target = <<"u", "/">>

\* two relays running concurrently, every interleaving of their steps
NextPair ==
    \E r \in Relays :
      \/ BuildSteps(r, {"POST"}, {<<"/">>}, SomeHeaderLists, PairBodies)
      \/ ForwardBodyChunk(r)
      \/ ForwardBodyEnd(r)
      \/ SendFail(r)
      \/ InboundReadError(r)
      \/ UpstreamReply(r, {200, 502}, {<<>>}, {<< <<1>> >>})
      \/ UpstreamSendChunk(r)
      \/ UpstreamEnd(r)
      \/ RelayChunk(r)
      \/ FinishStream(r)
      \/ UpstreamStreamError(r)
      \/ DeliverError(r)
      \/ ClientDisconnect(r)

SpecPair == InitPair /\ [][NextPair]_vars

\* inputs of the specification with fairness
LiveBodies == {<< <<1>> >>, << <<1>>, <<2>> >>}

\* one relay, its upstream and a caller whose body reads never fail
NextLive ==
    \E r \in {1} :
      \/ BuildSteps(r, Methods, {<<"/">>}, {<<>>}, LiveBodies)
      \/ ForwardBodyChunk(r)
      \/ ForwardBodyEnd(r)
      \/ SendFail(r)
      \/ UpstreamReply(r, {200}, {<<>>}, PairBodies)
      \/ UpstreamSendChunk(r)
      \/ UpstreamEnd(r)
      \/ RelayChunk(r)
      \/ FinishStream(r)
      \/ UpstreamStreamError(r)
      \/ DeliverError(r)
      \/ ClientDisconnect(r)

\* the runtime polls every task that can make progress: the steps the gateway takes
\* on its own happen. No timer of the client ends a request whose connection is
\* up (the builder sets connect_timeout only), so nothing forces a step of the
\* upstream or of the caller.
GatewayProgress ==
    \A r \in {1} :
        /\ WF_vars(Sanitize(r))
        /\ WF_vars(PrepareBody(r))
        /\ WF_vars(Dispatch(r))
        /\ WF_vars(ForwardBodyChunk(r))
        /\ WF_vars(ForwardBodyEnd(r))
        /\ WF_vars(RelayChunk(r))
        /\ WF_vars(FinishStream(r))
        /\ WF_vars(DeliverError(r))

SpecLive == InitPair /\ [][NextLive]_vars /\ GatewayProgress

\* the router in front of one relay
NextRouter ==
    \E r \in {1} :
      \/ HealthCheck(r, RouterMethods, RouterPaths)
      \/ MethodNotAllowed(r, RouterMethods, RouterPaths)
      \/ RouteToRelay(r, RouterMethods, RouterPaths, {<<>>}, PairBodies)
      \/ Sanitize(r)
      \/ PrepareBody(r)
      \/ Dispatch(r)
      \/ ForwardBodyChunk(r)
      \/ ForwardBodyEnd(r)
      \/ SendFail(r)
      \/ UpstreamReply(r, {200}, {<<>>}, PairBodies)
      \/ UpstreamSendChunk(r)
      \/ UpstreamEnd(r)
      \/ RelayChunk(r)
      \/ FinishStream(r)
      \/ DeliverError(r)

SpecRouter == InitPair /\ [][NextRouter]_vars

(***************************************************************************)
(* Properties                                                              *)
(***************************************************************************)
\* the values the header lines carry under a name, whatever its letter case, in order
ValuesOf(lines, n) ==
    LET sel == SelectSeq(lines, LAMBDA l : Lower(l[1]) = n)
    IN  [i \in 1..Len(sel) |-> sel[i][2]]

Dispatched(r) == relay[r].outReqs # <<>>

Denylist == {"host", "cf-connecting-ip", "cf-ipcountry", "x-forwarded-for", "x-real-ip"}

\* C1: no request sent to the upstream carries a value under host, cf-connecting-ip,
\* cf-ipcountry, x-forwarded-for or x-real-ip, whatever the case and the number of
\* the inbound lines of that name.
C1_DenylistNeverForwarded ==
    \A r \in Relays : \A i \in 1..Len(relay[r].outReqs) : \A n \in Denylist :
        relay[r].outReqs[i].headers[n] = <<>>

\* C2: the response relayed to the caller has the status of the upstream's reply and,
\* under every header name, exactly the values of the upstream's header lines, as many
\* and in the same order.
C2_ResponseHeadVerbatim ==
    \A r \in Relays :
        relay[r].origin = "upstream" =>
            /\ relay[r].clStatus = relay[r].upResp.status
            /\ \A n \in HeaderNames :
                 relay[r].clHeaders[n] = ValuesOf(relay[r].upResp.lines, n)

\* the configured target without its trailing slashes, worked out from the request URL
BaseOf(r) ==
    SubSeq(relay[r].outReqs[1].url, 1,
           Len(relay[r].outReqs[1].url) - Len(relay[r].path))

C4_BadGatewayIffNoHead ==
    \A r \in Relays :
        /\ relay[r].origin = "gateway" =>
             /\ relay[r].clStatus = 502
             /\ relay[r].err # None
             /\ relay[r].clBody = << <<"Proxy Error: ", relay[r].err>> >>
             /\ relay[r].heads = 0
        /\ relay[r].err # None => relay[r].origin = "gateway"
        /\ (relay[r].heads > 0 /\ relay[r].clStatus # 0) =>
             /\ relay[r].origin = "upstream"
             /\ relay[r].clStatus = relay[r].upResp.status

\* C5: every relay that reached send() has issued exactly one request to the upstream,
\* whether it succeeded or failed.
C5_ExactlyOneOutboundRequest ==
    \A r \in Relays :
        relay[r].pc \in {"UpstreamDispatched", "ResponseStreaming", "Failed", "Closed"} =>
            Len(relay[r].outReqs) = 1

\* C6: in the request built by the handler every header name outside the denylist and
\* other than content-length carries exactly the inbound values, content-length
\* carries none, and no name carries a value the inbound lines did not have.
C6_OtherHeadersUntouched ==
    \A r \in Relays :
        Dispatched(r) =>
            LET out == relay[r].outReqs[1].headers
                inl == relay[r].inLines
            IN  /\ \A n \in HeaderNames \ (Denylist \cup {"content-length"}) :
                     out[n] = ValuesOf(inl, n)
                /\ out["content-length"] = <<>>
                /\ \A n \in HeaderNames :
                     \A i \in 1..Len(out[n]) :
                        \E j \in 1..Len(inl) :
                           Lower(inl[j][1]) = n /\ inl[j][2] = out[n][i]

C6_Witness ==
    \E r \in Relays :
        /\ Dispatched(r)
        /\ relay[r].inLines = <<<<"Authorization", "v1">>, <<"Content-Length", "v2">>>>
        /\ relay[r].outReqs[1].headers["authorization"] = <<"v1">>

\* C7: in both directions the bytes forwarded so far, followed by the bytes not yet
\* forwarded, are the original bytes in their order: what the upstream has received
\* is a prefix of the inbound body and is the whole body once the inbound stream is
\* read to its end; what the caller has received is a prefix of the upstream's body
\* and is the whole body when the response completes.
C7_BodiesInOrder ==
    \A r \in Relays :
        /\ Concat(relay[r].upRecv) \o Concat(relay[r].inBody) = Concat(relay[r].inOrig)
        /\ IsPrefix(Concat(relay[r].upRecv), Concat(relay[r].inOrig))
        /\ relay[r].origin = "upstream" =>
             /\ IsPrefix(Concat(relay[r].clBody), Concat(relay[r].upResp.body))
             /\ relay[r].clEnd = "complete" =>
                  Concat(relay[r].clBody) = Concat(relay[r].upResp.body)

C7_Witness ==
    \E r \in Relays :
        /\ relay[r].inOrig = << <<1>>, <<2>> >>
        /\ relay[r].upRecv = << <<1>>, <<2>> >>
        /\ relay[r].origin = "upstream"
        /\ relay[r].clEnd = "complete"
        /\ relay[r].clBody = << <<1>>, <<2>> >>

HeadForwarded(rec) == rec.origin = "upstream"

\* C8: once the upstream's status and headers are forwarded nothing changes them: a
\* failure of the body stream leaves status and headers as sent, makes no gateway
\* response, and ends the caller's body on a prefix of the upstream's bytes.
C8_HeadFinalOnceSent ==
    /\ [][\A r \in Relays :
            HeadForwarded(relay[r]) =>
                /\ relay'[r].clStatus = relay[r].clStatus
                /\ relay'[r].clHeaders = relay[r].clHeaders
                /\ relay'[r].origin = "upstream"
                /\ IsPrefix(relay[r].clBody, relay'[r].clBody)]_vars
    /\ [](\A r \in Relays :
            (HeadForwarded(relay[r]) /\ relay[r].clEnd = "aborted") =>
                /\ relay[r].clStatus = relay[r].upResp.status
                /\ IsPrefix(Concat(relay[r].clBody), Concat(relay[r].upResp.body)))

C8_Witness ==
    \E r \in Relays :
        /\ HeadForwarded(relay[r])
        /\ relay[r].connected
        /\ relay[r].clEnd = "aborted"
        /\ relay[r].clStatus = 200
        /\ relay[r].clBody = << <<1>> >>
        /\ relay[r].upResp.body = << <<1>>, <<2>> >>

\* C9: from the caller's disconnect on the relay is over: its streams are released,
\* no response chunk is read from the upstream, no request-body chunk and no request
\* goes to the upstream.
C9_DisconnectCancels ==
    /\ [](\A r \in Relays :
            ~relay[r].connected =>
                /\ relay[r].pc = "Closed"
                /\ ~relay[r].bodyLive
                /\ ~relay[r].respLive)
    /\ [][\A r \in Relays :
            ~relay[r].connected =>
                /\ relay'[r].upWire = relay[r].upWire
                /\ relay'[r].clBody = relay[r].clBody
                /\ relay'[r].upRecv = relay[r].upRecv
                /\ relay'[r].outReqs = relay[r].outReqs]_vars

C9_Witness ==
    \E r \in Relays :
        /\ ~relay[r].connected
        /\ relay[r].origin = "upstream"
        /\ relay[r].upWire # <<>>
        /\ relay[r].clBody # <<>>

\* C10: while the response is being relayed to a connected caller, a chunk the
\* upstream has sent can be delivered at once, whether or not the upstream has more
\* to send or has ended its body.
C10_ChunkDeliverable ==
    \A r \in Relays :
        (/\ HeadForwarded(relay[r])
         /\ relay[r].connected
         /\ relay[r].clEnd = "open"
         /\ relay[r].upWire # <<>>) => ENABLED RelayChunk(r)

C10_Witness ==
    \E r \in Relays :
        /\ HeadForwarded(relay[r])
        /\ relay[r].clBody = << <<1>> >>
        /\ relay[r].upLeft = << <<2>> >>
        /\ ~relay[r].upDone
        /\ relay[r].clEnd = "open"

\* C11: every relayed request is streamed: nothing is read from the inbound body
\* before the request is dispatched, a chunk that has arrived can be handed to the
\* upstream while later chunks are still to come, and the only status the gateway
\* makes itself is 502.
C11_StreamedOnly ==
    \A r \in Relays :
        /\ relay[r].pc \in {"Received", "HeadersSanitized", "BodyPrepared"} =>
             /\ relay[r].inBody = relay[r].inOrig
             /\ relay[r].upRecv = <<>>
        /\ (/\ relay[r].pc = "UpstreamDispatched"
            /\ relay[r].bodyLive
            /\ relay[r].inBody # <<>>) => ENABLED ForwardBodyChunk(r)
        /\ relay[r].origin = "gateway" => relay[r].clStatus = 502

C11_Witness ==
    \E r \in Relays :
        /\ relay[r].pc = "UpstreamDispatched"
        /\ relay[r].heads = 0
        /\ relay[r].upRecv = << <<1>> >>
        /\ relay[r].inBody = << <<2>> >>

\* C12: once the shutdown signal is in no new request is accepted, a relay in flight
\* can go on delivering its response, and the process exits only when every relay
\* has ended.
C12_GracefulShutdown ==
    /\ [][\A r \in Relays :
            (relay[r].pc = "Idle" /\ relay'[r].pc # "Idle") => proc = "serving"]_vars
    /\ [](proc = "exited" => \A r \in Relays : relay[r].pc \in {"Idle", "Closed"})
    /\ [](\A r \in Relays :
            (/\ proc = "draining"
             /\ relay[r].pc = "ResponseStreaming"
             /\ relay[r].upWire # <<>>) => ENABLED RelayChunk(r))

C12_Witness ==
    \E r \in Relays :
        /\ proc = "draining"
        /\ relay[r].pc = "ResponseStreaming"
        /\ relay[r].upWire # <<>>

\* C13: the process serves only with a configuration it has validated in full (proxy
\* URL, listen address, client, target), and no request is answered with an error
\* of the configuration.
C13_ConfigValidatedBeforeServing ==
    /\ proc \in {"serving", "draining"} =>
         /\ args.proxy # "bad"
         /\ args.listen # "bad"
         /\ client.built
         /\ IsUrl(args_target)
    /\ \A r \in Relays : relay[r].err # "builder"

\* C14: a process that serves with certificate verification off has written the
\* record announcing it, whatever the log level, and verification is off only when
\* the insecure flag was given.
C14_BypassAlwaysLogged ==
    /\ (proc \in {"serving", "draining", "exited"} /\ client.insecure) =>
         \E i \in 1..Len(log) : log[i][2] = "insecure"
    /\ client.insecure => args.insecure

\* C15: a read error on the inbound body aborts the outbound request body: the
\* upstream holds a prefix of the body and never its end, the caller is given 502
\* when no response head had arrived, and the process keeps serving: a free slot
\* still accepts a request.
C15_ReadErrorAbortsSend ==
    \A r \in Relays :
        relay[r].inErr =>
            /\ ~relay[r].reqEnd
            /\ ~relay[r].bodyLive
            /\ IsPrefix(relay[r].upRecv, relay[r].inOrig)
            /\ relay[r].heads = 0 =>
                 /\ relay[r].origin = "gateway"
                 /\ relay[r].clStatus = 502
                 /\ relay[r].err = "body"
            /\ proc = "serving"
            /\ \A q \in Relays :
                 relay[q].pc = "Idle" =>
                     ENABLED Receive(q, {"POST"}, {<<"/">>}, SomeHeaderLists, PairBodies)

C15_Witness ==
    \E r, q \in Relays :
        /\ relay[r].inErr
        /\ relay[r].inBody # <<>>
        /\ relay[r].clStatus = 502
        /\ relay[r].pc = "Closed"
        /\ relay[q].pc = "ResponseStreaming"
        /\ relay[q].clBody # <<>>

\* C16: sanitizing is idempotent: running the five removals over the outbound
\* header set of a relay, or twice over its inbound header set, gives the same
\* header set as running them once.
C16_SanitizeIdempotent ==
    \A r \in Relays :
        /\ relay[r].pc # "Idle" =>
             SanitizeHeaders(SanitizeHeaders(relay[r].headers))
                 = SanitizeHeaders(relay[r].headers)
        /\ relay[r].pc \notin {"Idle", "Received"} =>
             /\ relay[r].new_headers = SanitizeHeaders(relay[r].headers)
             /\ SanitizeHeaders(relay[r].new_headers) = relay[r].new_headers

C16_Witness ==
    \E r \in Relays :
        /\ relay[r].pc = "HeadersSanitized"
        /\ Len(relay[r].headers["host"]) = 2
        /\ relay[r].new_headers["host"] = <<>>
        /\ SanitizeHeaders(relay[r].new_headers) = relay[r].new_headers

\* the transitions of the state machine of the relay engine, as the spec draws it
StrictEdges ==
    {<<"Idle", "Received">>, <<"Received", "HeadersSanitized">>,
     <<"HeadersSanitized", "BodyPrepared">>, <<"BodyPrepared", "UpstreamDispatched">>,
     <<"UpstreamDispatched", "ResponseStreaming">>, <<"UpstreamDispatched", "Failed">>,
     <<"ResponseStreaming", "Closed">>, <<"Failed", "Closed">>}

\* the upstream is contacted only by a relay that has sanitized and prepared, and a
\* closed relay takes no step
OrderedDispatch(r) ==
    /\ relay'[r].outReqs # relay[r].outReqs =>
         /\ relay[r].pc \in {"BodyPrepared", "UpstreamDispatched"}
         /\ relay[r].new_headers = SanitizeHeaders(relay[r].headers)
         /\ relay'[r].outReqs[1].headers = relay[r].new_headers
    /\ relay[r].pc = "Closed" => relay'[r] = relay[r]

\* C17 as stated: every change of state is a transition of the drawing, so a closed
\* relay has passed through exactly one of ResponseStreaming and Failed.
C17_StateOrderStrict ==
    [][\A r \in Relays :
          /\ relay'[r].pc # relay[r].pc => <<relay[r].pc, relay'[r].pc>> \in StrictEdges
          /\ OrderedDispatch(r)]_vars

\* C17: every change of state is a transition of the drawing, or the step from
\* UpstreamDispatched to Closed of a relay whose caller has disconnected; so a
\* relay passes through at most one of ResponseStreaming and Failed, through
\* neither only when the caller left while the reply was awaited, never dispatches
\* before sanitizing and preparing, and takes no step after Closed.
C17_StateOrder ==
    [][\A r \in Relays :
          /\ relay'[r].pc # relay[r].pc =>
               \/ <<relay[r].pc, relay'[r].pc>> \in StrictEdges
               \/ /\ relay[r].pc = "UpstreamDispatched"
                  /\ relay'[r].pc = "Closed"
                  /\ relay[r].connected
                  /\ ~relay'[r].connected
                  /\ relay'[r].clStatus = 0
          /\ OrderedDispatch(r)]_vars

C17_Witness ==
    \E r \in Relays :
        /\ relay[r].pc = "Closed"
        /\ ~relay[r].connected
        /\ relay[r].outReqs # <<>>
        /\ relay[r].clStatus = 0
        /\ relay[r].origin = None

\* the upstream has accepted the connection of the relay: it took bytes of the
\* request body or sent a response head
UpstreamConnected(r) ==
    /\ relay[r].pc \in {"UpstreamDispatched", "ResponseStreaming"}
    /\ relay[r].upRecv # <<>> \/ relay[r].heads > 0

\* C18: every relay whose upstream connection is up eventually reaches Closed,
\* also when the upstream sends no response head or stops sending body chunks
\* while the caller stays connected.
C18_EveryRelayCloses ==
    \A r \in Relays : UpstreamConnected(r) ~> relay[r].pc = "Closed"

\* the outbound request and the response of a relay, as its own inbound request
\* and its own upstream reply determine them
OwnRequest(r) ==
    [method  |-> relay[r].method,
     url     |-> TargetUri(target_url, relay[r].path),
     headers |-> SanitizeHeaders(ParseHeaders(relay[r].inLines)),
     body    |-> TRUE]

OwnResponse(r) ==
    /\ relay[r].origin = "upstream" =>
         /\ relay[r].clStatus = relay[r].upResp.status
         /\ relay[r].clHeaders = CopyRespHeaders(relay[r].upResp.lines)
         /\ IsPrefix(relay[r].clBody, relay[r].upResp.body)
    /\ relay[r].origin = "gateway" =>
         /\ relay[r].clStatus = 502
         /\ relay[r].clBody = << <<"Proxy Error: ", relay[r].err>> >>
    /\ relay[r].origin = None => relay[r].clStatus = 0 /\ relay[r].clBody = <<>>

\* C19: relays in flight together are independent: no step changes the target URL
\* or the client configuration, a step of one relay leaves every other relay as it
\* was, and the outbound request and the response of a relay are those its own
\* inbound request and its own upstream reply determine.
C19_RelaysIndependent ==
    /\ [][/\ UNCHANGED <<args_target, target_url, args, client>>
          /\ \A r, q \in Relays :
               (r # q /\ relay'[r] # relay[r]) => relay'[q] = relay[q]]_vars
    /\ [](\A r \in Relays :
            /\ relay[r].outReqs # <<>> => relay[r].outReqs[1] = OwnRequest(r)
            /\ IsPrefix(relay[r].upRecv, relay[r].inOrig)
            /\ OwnResponse(r))

C19_Witness ==
    \E r, q \in Relays :
        /\ relay[r].pc = "ResponseStreaming"
        /\ relay[q].pc = "Failed"
        /\ relay[r].inLines # relay[q].inLines
        /\ relay[r].inOrig # relay[q].inOrig
        /\ relay[r].outReqs[1].headers # relay[q].outReqs[1].headers
        /\ relay[r].clBody # <<>>

\* C20: a request for /health is answered 200 with the static body and never
\* reaches the upstream; every other request, whatever its method and path, is
\* handed to the relay; the router answers no request with an error of its own.
C20_RouterNeverRejects ==
    \A r \in Relays :
        relay[r].pc # "Idle" =>
            /\ relay[r].origin # "router"
            /\ relay[r].origin = "health" =>
                 /\ PathOf(relay[r].path) = HealthPath
                 /\ relay[r].clStatus = 200
                 /\ relay[r].method # "HEAD" => relay[r].clBody = HealthBody
                 /\ relay[r].outReqs = <<>>
            /\ (PathOf(relay[r].path) # HealthPath /\ relay[r].pc = "Closed") =>
                 relay[r].outReqs # <<>>

====
